---------------------------- MODULE Spec2Model ----------------------------
(***************************************************************************)
(* A model of app/refreshdata.py, the data refresher of the Covid19 Mtl    *)
(* dashboard: the run lock, the retrying fetch, the size-checked save with *)
(* hard-link backups, the cell normaliser and the HTML table extractor.    *)
(*                                                                         *)
(* Text and file contents are sequences of one-character strings.          *)
(***************************************************************************)
EXTENDS Naturals, Sequences, FiniteSets, TLC

(***************************************************************************)
(* Generic helpers on sequences.                                           *)
(***************************************************************************)
SetMax(S) == CHOOSE x \in S : \A y \in S : y <= x

SetMin(S) == CHOOSE x \in S : \A y \in S : x <= y

SeqsUpTo(A, n) == UNION {[1..k -> A] : k \in 0..n}

RECURSIVE Flatten(_)
Flatten(ss) == IF ss = <<>> THEN <<>> ELSE Head(ss) \o Flatten(Tail(ss))

(***************************************************************************)
(* norm_cell: the cell normaliser.                                         *)
(***************************************************************************)
\* \d of NUM_PAT
Digits == {"0", "1", "2", "3", "4", "5", "6", "7", "8", "9"}

\* what str.strip() and str.split() treat as whitespace
Whitespace == {" ", "\n", "\t"}

\* the character class (?:\d| |,) of NUM_PAT
NumClass == Digits \cup {" ", ","}

\* NUM_PAT.match(text).group(1): the match is anchored at the start of the
\* text only.  \*? takes a leading asterisk, then the class is repeated
\* greedily; the match succeeds when the run is not empty.  The result is
\* the run (<<>> stands for "no match": a match never has an empty group).
NUM_PAT_group1(text) ==
    LET start == IF Len(text) > 0 /\ text[1] = "*" THEN 2 ELSE 1
        ends  == {j \in (start - 1)..Len(text) :
                     \A k \in start..j : text[k] \in NumClass}
    IN  SubSeq(text, start, SetMax(ends))

\* str.strip()
strip(s) ==
    LET keep == {i \in 1..Len(s) : s[i] \notin Whitespace}
    IN  IF keep = {} THEN <<>> ELSE SubSeq(s, SetMin(keep), SetMax(keep))

\* str.replace(old, new) for a one-character old; new is a string
replace(s, old, new) ==
    Flatten([i \in 1..Len(s) |-> IF s[i] = old THEN new ELSE <<s[i]>>])

\* str.split() with no argument: the maximal runs of non-whitespace
RECURSIVE split(_)
split(s) ==
    LET t == strip(s)
        ws == {i \in 1..Len(t) : t[i] \in Whitespace}
    IN  IF t = <<>> THEN <<>>
        ELSE IF ws = {} THEN <<t>>
        ELSE <<SubSeq(t, 1, SetMin(ws) - 1)>>
                 \o split(SubSeq(t, SetMin(ws), Len(t)))

\* ' '.join(words)
RECURSIVE join(_)
join(words) ==
    IF words = <<>> THEN <<>>
    ELSE IF Len(words) = 1 THEN words[1]
    ELSE words[1] \o <<" ">> \o join(Tail(words))

\* a mutant of norm_cell: the thousands separators are not removed
norm_cell_keep_spaces(text) ==
    LET g == NUM_PAT_group1(text)
        t1 == IF g # <<>> THEN replace(strip(g), ",", <<".">>) ELSE text
    IN  join(split(t1))

norm_cell(text) ==
    LET g == NUM_PAT_group1(text)
        t1 == IF g # <<>>
              THEN replace(replace(strip(g), ",", <<".">>), " ", <<>>)
              ELSE text
    IN  join(split(t1))


(***************************************************************************)
(* normalize_encoding and fetch: the remote fetcher.                       *)
(*                                                                         *)
(* A byte is a string: an ASCII byte is its character, a high byte is      *)
(* written "xE9".  A decoded character is the ASCII character or "U+00E9". *)
(***************************************************************************)
NB_RETRIES == 3

HighBytes == {"xE9", "xC3", "xA9", "x83", "xC2", "x82"}

\* the code point a latin-1 byte decodes to
Latin1Char(b) ==
    CASE b = "xE9" -> "U+00E9"
      [] b = "xC3" -> "U+00C3"
      [] b = "xA9" -> "U+00A9"
      [] b = "x83" -> "U+0083"
      [] b = "xC2" -> "U+00C2"
      [] b = "x82" -> "U+0082"
      [] OTHER -> b

\* the two-byte UTF-8 sequences of the model's non-ASCII characters
Utf8Pairs ==
    {<<"U+00E9", <<"xC3", "xA9">> >>, <<"U+00C3", <<"xC3", "x83">> >>,
     <<"U+00A9", <<"xC2", "xA9">> >>, <<"U+0083", <<"xC2", "x83">> >>,
     <<"U+00C2", <<"xC3", "x82">> >>, <<"U+0082", <<"xC2", "x82">> >>}

\* The result of an operation that may raise: the value, or the exception.
Ok(v) == [err |-> "", val |-> v]

Raise(e) == [err |-> e, val |-> <<>>]

\* bytes.decode('utf-8'): UnicodeDecodeError on an invalid sequence
RECURSIVE decode_utf8(_)
decode_utf8(bs) ==
    IF bs = <<>> THEN Ok(<<>>)
    ELSE IF bs[1] \notin HighBytes
         THEN LET rest == decode_utf8(Tail(bs))
              IN  IF rest.err # "" THEN rest ELSE Ok(<<bs[1]>> \o rest.val)
    ELSE IF Len(bs) >= 2 /\ \E pr \in Utf8Pairs : pr[2] = SubSeq(bs, 1, 2)
         THEN LET c == (CHOOSE pr \in Utf8Pairs : pr[2] = SubSeq(bs, 1, 2))[1]
                  rest == decode_utf8(SubSeq(bs, 3, Len(bs)))
              IN  IF rest.err # "" THEN rest ELSE Ok(<<c>> \o rest.val)
    ELSE Raise("UnicodeDecodeError")

\* bytes.decode(encoding): utf-8 and latin-1 are the codecs of the model, any
\* other encoding name is unknown to Python
decode(bs, encoding) ==
    CASE encoding = "utf-8" -> decode_utf8(bs)
      [] encoding = "iso-8859-1" -> Ok([i \in 1..Len(bs) |-> Latin1Char(bs[i])])
      [] OTHER -> Raise("LookupError")

\* str.encode('utf-8')
encode_utf8(text) ==
    Flatten([i \in 1..Len(text) |->
        IF \E pr \in Utf8Pairs : pr[1] = text[i]
        THEN (CHOOSE pr \in Utf8Pairs : pr[1] = text[i])[2]
        ELSE <<text[i]>>])

\* the Content-Type headers of the model; "None" is a response without one
ContentTypes ==
    {"None", "text/csv", "text/html; charset=utf-8",
     "text/html; charset=iso-8859-1", "text/html; charset=x-bogus"}

\* CHARSET_PAT.search(content_type).group(1), "" when there is no match
CHARSET_PAT_group1(content_type) ==
    CASE content_type = "text/html; charset=utf-8" -> "utf-8"
      [] content_type = "text/html; charset=iso-8859-1" -> "iso-8859-1"
      [] content_type = "text/html; charset=x-bogus" -> "x-bogus"
      [] OTHER -> ""

normalize_encoding(data, content_type) ==
    LET m == IF content_type # "None" THEN CHARSET_PAT_group1(content_type) ELSE ""
        encoding == IF m # "" THEN m ELSE "utf-8"
        text == decode(data, encoding)
    IN  IF text.err # "" THEN text ELSE Ok(encode_utf8(text.val))

\* What one iteration of fetch's loop does: it returns a value, raises, or
\* goes on to the next iteration ("next").
\* A mutant of fetch_attempt: a non-success status moves on to the next
\* attempt.
fetch_attempt_continue(resp) ==
    IF resp.raised # "" THEN Raise(resp.raised)
    ELSE IF resp.status # 200 THEN Raise("next")
    ELSE normalize_encoding(resp.content, resp.ctype)

\* One iteration of fetch's loop, resp being what requests.get gave: a
\* response, or the exception it raised.  On a status other than 200 the loop
\* body evaluates the name `next` and goes on to the return.
fetch_attempt(resp) ==
    IF resp.raised # "" THEN Raise(resp.raised)
    ELSE normalize_encoding(resp.content, resp.ctype)

\* fetch's loop around one iteration: i (from 0) is the loop variable.  An
\* iteration that ends without returning is followed by the next one, and
\* after the last one by the RuntimeError.  The result's err is "next" when
\* the loop goes on.
fetch_step(i, resp) ==
    LET r == fetch_attempt(resp)
    IN  IF r.err = "next" /\ i + 1 >= NB_RETRIES THEN Raise("RuntimeError") ELSE r

(***************************************************************************)
(* The file system: directory entries name inodes, inodes hold bytes.      *)
(* A file name is <<directory, base, time tag, extension>>, the time tag   *)
(* being 0 for a name without one.                                         *)
(***************************************************************************)
Path(dir, file) == <<dir, file[1], 0, file[2]>>

\* os.path.splitext and the format of backup's link name
BackupName(name, time_tag) == <<name[1], name[2], time_tag, name[4]>>

\* os.path.isfile
isfile(dirent, name) == name \in DOMAIN dirent

\* os.path.getsize
getsize(dirent, inode, name) == Len(inode[dirent[name]])

\* os.link(src, dst): dst names the inode of src
link(dirent, src, dst) == dirent @@ (dst :> dirent[src])

\* open(name, 'w'): an existing file is truncated in place, a missing one is
\* created; [dirent, inode, fd], fd being the inode the handle writes to
open_w(dirent, inode, name) ==
    IF isfile(dirent, name)
    THEN [dirent |-> dirent,
          inode  |-> [inode EXCEPT ![dirent[name]] = <<>>],
          fd     |-> dirent[name]]
    ELSE LET new == Cardinality(DOMAIN inode) + 1
         IN  [dirent |-> dirent @@ (name :> new),
              inode  |-> inode @@ (new :> <<>>),
              fd     |-> new]

\* a mutant of backup: no link is made
backup_noop(dirent, filename, now) == dirent

\* backup(filename) at the clock reading now: the directory after it
backup(dirent, filename, now) ==
    IF ~isfile(dirent, filename) THEN dirent
    ELSE link(dirent, filename, BackupName(filename, now))

\* a mutant of save_df_check: data is saved over a cached file only
save_df_check_cached(dirent, inode, filename, data) ==
    IF ~isfile(dirent, filename) THEN Raise("FileNotFoundError")
    ELSE IF getsize(dirent, inode, filename) > Len(data)
    THEN Raise("ValueError: smaller")
    ELSE Ok(<<>>)

\* a mutant of save_df_check: data of the size of the file is refused too
save_df_check_larger(dirent, inode, filename, data) ==
    IF isfile(dirent, filename) /\ getsize(dirent, inode, filename) >= Len(data)
    THEN Raise("ValueError: smaller")
    ELSE Ok(<<>>)

\* a mutant of save_df_check: the size test is left out
save_df_check_any(dirent, inode, filename, data) == Ok(<<>>)

\* save_df's test of the cached file: the ValueError, or nothing
save_df_check(dirent, inode, filename, data) ==
    IF isfile(dirent, filename) /\ getsize(dirent, inode, filename) > Len(data)
    THEN Raise("ValueError: smaller")
    ELSE Ok(<<>>)

(***************************************************************************)
(* parse_data_mtl: the HTML table extractor.                               *)
(*                                                                         *)
(* A document is read as a sequence of table elements.  In the bytes of a  *)
(* document a mark opens a table and the text up to the next mark is its   *)
(* one row, "|" separating the cells:                                      *)
(*   "d"  a table of class contenttable                                    *)
(*   "c"  one holding a <td bgcolor="#A1C8E7">                             *)
(*   "p"  one holding a <p>                                                *)
(*   "h"  one holding a <h4>                                               *)
(*   "t"  a table that is not of class contenttable                        *)
(* Bytes before the first mark belong to no table.                         *)
(***************************************************************************)
nb_tables == 4

file_names ==
    << <<"mtl_ciusss", ".csv">>, <<"mtl_borough", ".csv">>,
       <<"mtl_ages", ".csv">>, <<"mtl_gender", ".csv">> >>

TableMarks == {"d", "c", "p", "h", "t"}

\* the parts of s between the occurrences of sep
RECURSIVE SplitBy(_, _)
SplitBy(s, sep) ==
    LET at == {i \in 1..Len(s) : s[i] = sep}
    IN  IF at = {} THEN <<s>>
        ELSE <<SubSeq(s, 1, SetMin(at) - 1)>>
                 \o SplitBy(SubSeq(s, SetMin(at) + 1, Len(s)), sep)

\* the table elements of the document, in document order
RECURSIVE soup_tables(_)
soup_tables(bytes) ==
    LET marks == {i \in 1..Len(bytes) : bytes[i] \in TableMarks}
    IN  IF marks = {} THEN <<>>
        ELSE LET m    == SetMin(marks)
                 rest == {i \in marks : i > m}
                 stop == IF rest = {} THEN Len(bytes) ELSE SetMin(rest) - 1
                 text == SubSeq(bytes, m + 1, stop)
             IN  << [contenttable |-> bytes[m] # "t",
                     bgcolor_td   |-> bytes[m] = "c",
                     p            |-> bytes[m] = "p",
                     h4           |-> bytes[m] = "h",
                     tr           |-> IF text = <<>> THEN <<>>
                                      ELSE <<SplitBy(text, "|")>>] >>
                 \o soup_tables(SubSeq(bytes, stop + 1, Len(bytes)))

\* soup.select('table.contenttable')
select_contenttable(soup) == SelectSeq(soup, LAMBDA t : t.contenttable)

\* the loop that drops the tables of text
data_tables(tables) ==
    SelectSeq(tables, LAMBDA t : ~t.bgcolor_td /\ ~(t.p \/ t.h4))

\* the rows of a table, every cell through norm_cell
table_rows(t) ==
    [r \in 1..Len(t.tr) |-> [c \in 1..Len(t.tr[r]) |-> norm_cell(t.tr[r][c])]]

\* csv.writer: a field holding a delimiter, a quote or a line break is quoted,
\* and so is the empty field of a one-field row
csv_field(cell, alone) ==
    IF (\E i \in 1..Len(cell) : cell[i] \in {",", "\"", "\r", "\n"})
       \/ (alone /\ cell = <<>>)
    THEN <<"\"">> \o replace(cell, "\"", <<"\"", "\"">>) \o <<"\"">>
    ELSE cell

RECURSIVE join_fields(_)
join_fields(fields) ==
    IF fields = <<>> THEN <<>>
    ELSE IF Len(fields) = 1 THEN fields[1]
    ELSE fields[1] \o <<",">> \o join_fields(Tail(fields))

\* writer.writerows(rows): the text of the file
csv_rows(rows) ==
    Flatten([r \in 1..Len(rows) |->
        join_fields([c \in 1..Len(rows[r]) |->
                        csv_field(rows[r][c], Len(rows[r]) = 1)])
            \o <<"\r", "\n">>])

\* a mutant of parse_tables: the count of the data tables is not checked
parse_tables_unchecked(bytes) ==
    Ok(data_tables(select_contenttable(soup_tables(bytes))))

\* parse_data_mtl up to its loop of writes: the data tables, or the ValueError
parse_tables(bytes) ==
    LET dt == data_tables(select_contenttable(soup_tables(bytes)))
    IN  IF Len(dt) # nb_tables THEN Raise("ValueError: tables") ELSE Ok(dt)

(***************************************************************************)
(* lock and main: the run lock and the pipeline.                           *)
(***************************************************************************)
SOURCES ==
    << [file |-> <<"data_mtl", ".html">>,                url |-> "santemontreal"],
       [file |-> <<"data_qc", ".csv">>,                  url |-> "combine"],
       [file |-> <<"data_qc_case_by_network", ".csv">>,  url |-> "tableau-rls"],
       [file |-> <<"data_qc_death_loc_by_reg", ".csv">>, url |-> "tableau-rpa"] >>

\* a mutant of flock: the lock is taken shared
flock_shared(holders, p) == Ok(<<>>)

\* fcntl.flock(fd, LOCK_EX | LOCK_NB) by process p, holders being the
\* processes that hold a lock on the file
flock(holders, p) ==
    IF holders \ {p} # {} THEN Raise("BlockingIOError") ELSE Ok(<<>>)

\* a mutant of main_on_failure: the failure of one source is logged and the
\* loop goes on
main_on_failure_continue == "continue"

\* what becomes of an exception of fetch or save_df in main's loop: nothing
\* catches it, so it ends the process
main_on_failure == "abort"

(***************************************************************************)
(* The bounds of the model and what the remote sites answer.               *)
(***************************************************************************)
\* the number of processes started on the data directory
NumProcs == 2

\* the longest cell text given to norm_cell
MaxCell == 4

\* the most data tables in a page of the remote site
MaxTables == 5

\* the longest body of a stubbed response
MaxBody == 1

\* the most bytes a killed process leaves in the file it was writing
MaxPartial == 1

Procs == 1..NumProcs

\* a page of n data tables of one cell each, after a preamble
Page(pre, n, cell) == pre \o Flatten([i \in 1..n |-> <<"d">> \o cell])

\* the pages the remote site may serve: four data tables, alone or among
\* tables of text, and pages of fewer and of more data tables
HtmlBodies ==
    {Page(<<>>, nb_tables, <<",", "1">>),
     Page(<<"c", "p", "h", "t">>, nb_tables, <<"1">>),
     Page(<<>>, nb_tables - 1, <<"1">>), Page(<<>>, MaxTables, <<"1", "2">>)}

CsvBodies == {<<"a">>, <<"a", "b">>}

\* what requests.get gives: a response, or the exception it raised
Response(status, ctype, content) ==
    [raised |-> "", status |-> status, ctype |-> ctype, content |-> content]

ConnectionError ==
    [raised |-> "ConnectionError", status |-> 0, ctype |-> "None", content |-> <<>>]

\* what requests.get(url) may give in a run of the pipeline
Remote(url) ==
    {ConnectionError}
    \cup {Response(st, "None", b) :
              st \in {200, 500},
              b \in IF url = "santemontreal" THEN HtmlBodies ELSE CsvBodies}

(***************************************************************************)
(* The state.                                                              *)
(***************************************************************************)
VARIABLES
    pc,          \* where each process is in main
    local,       \* args.local of each process
    idx,         \* the entry of SOURCES main's loop is at (from 1)
    attempt,     \* i of fetch's loop
    data,        \* what fetch returned
    tables,      \* data_tables of parse_data_mtl
    k,           \* the pair of zip(file_names, data_tables) the loop is at
    fd,          \* the inode of the file open for writing, 0 when none
    status,      \* the exit status of the process once it has exited
    err,         \* the exception or signal that ended the process
    log,         \* what each process did, in order (history)
    lockHolders, \* the processes holding the flock on scraper.pid
    lockf,       \* scraper.pid: "absent", "empty" or "getpid"
    dirent,      \* file name -> inode number
    inode,       \* inode number -> bytes
    clock,       \* the last reading of datetime.utcnow()
    made,        \* backup name -> the bytes it held when created (history)
    cellIn,      \* the text given to norm_cell
    cellOut,     \* the results of norm_cell, applied again to its result
    stub,        \* what the stubbed requests.get gives, call after call
    fetchI,      \* i of the stubbed fetch's loop
    fetchOut     \* the stubbed fetch: [state, err, val, gets]

procVars == <<pc, local, idx, attempt, data, tables, k, fd, status, err, log>>

fsVars == <<dirent, inode, clock, made>>

normVars == <<cellIn, cellOut>>

stubVars == <<stub, fetchI, fetchOut>>

vars == <<procVars, lockHolders, lockf, fsVars, normVars, stubVars>>

InitPipeline ==
    /\ pc = [p \in Procs |-> "start"]
    /\ local = [p \in Procs |-> FALSE]
    /\ idx = [p \in Procs |-> 1]
    /\ attempt = [p \in Procs |-> 0]
    /\ data = [p \in Procs |-> <<>>]
    /\ tables = [p \in Procs |-> <<>>]
    /\ k = [p \in Procs |-> 1]
    /\ fd = [p \in Procs |-> 0]
    /\ status = [p \in Procs |-> 0]
    /\ err = [p \in Procs |-> ""]
    /\ log = [p \in Procs |-> <<>>]
    /\ lockHolders = {}
    /\ lockf = "absent"
    /\ dirent = <<>>
    /\ inode = <<>>
    /\ clock = 0
    /\ made = <<>>

InitNormNone == cellIn = <<>> /\ cellOut = <<>>

InitStubNone ==
    /\ stub = <<>>
    /\ fetchI = 0
    /\ fetchOut = [state |-> "running", err |-> "", val |-> <<>>, gets |-> 0]

Init == InitPipeline /\ InitNormNone /\ InitStubNone

(***************************************************************************)
(* The steps of a process running main.                                    *)
(***************************************************************************)
Logged(p, event) == [log EXCEPT ![p] = Append(@, event)]

\* a mutant of Ends: the status is 0 however the process ends
Ends_zero(p, st, e) ==
    /\ pc' = [pc EXCEPT ![p] = "exited"]
    /\ status' = [status EXCEPT ![p] = 0]
    /\ err' = [err EXCEPT ![p] = e]
    /\ lockHolders' = lockHolders \ {p}

\* The process ends: by an uncaught exception (status 1), by main's return
\* (status 0) or by a signal (status 128 + 9).  Its lock goes with it.
Ends(p, st, e) ==
    /\ pc' = [pc EXCEPT ![p] = "exited"]
    /\ status' = [status EXCEPT ![p] = st]
    /\ err' = [err EXCEPT ![p] = e]
    /\ lockHolders' = lockHolders \ {p}

\* a mutant of NextSource: parse_data_mtl follows the first entry of SOURCES
NextSource_first(p) ==
    /\ attempt' = [attempt EXCEPT ![p] = 0]
    /\ data' = [data EXCEPT ![p] = <<>>]
    /\ idx' = idx
    /\ pc' = [pc EXCEPT ![p] = "parse"]

\* main's loop moves on to the next entry of SOURCES, or to parse_data_mtl
NextSource(p) ==
    /\ attempt' = [attempt EXCEPT ![p] = 0]
    /\ data' = [data EXCEPT ![p] = <<>>]
    /\ IF idx[p] < Len(SOURCES)
       THEN /\ idx' = [idx EXCEPT ![p] = @ + 1]
            /\ pc' = [pc EXCEPT ![p] = "fetch"]
       ELSE /\ idx' = idx
            /\ pc' = [pc EXCEPT ![p] = "parse"]

\* fetch or save_df raised e in main's loop, after the event ev
SourceFailure(p, e, ev) ==
    /\ log' = [log EXCEPT ![p] = @ \o <<ev, <<"failed", idx[p]>> >>]
    /\ IF main_on_failure = "abort"
       THEN /\ Ends(p, 1, e)
            /\ UNCHANGED <<idx, attempt, data>>
       ELSE /\ NextSource(p)
            /\ UNCHANGED <<status, err, lockHolders>>

\* a mutant of main_after_lock: --local is not looked at
main_after_lock_fetch(l) == "fetch"

\* where main goes after lock(): into its loop over SOURCES, or, with
\* --local, to parse_data_mtl
main_after_lock(l) == IF l \/ Len(SOURCES) = 0 THEN "parse" ELSE "fetch"

\* The process starts: the arguments are parsed and lock(args.data_dir) runs.
\* The processes are numbered in the order they start.
Lock(p) ==
    /\ pc[p] = "start"
    /\ \A q \in Procs : q < p => pc[q] # "start"
    /\ \E l \in BOOLEAN :
          /\ local' = [local EXCEPT ![p] = l]
          /\ IF flock(lockHolders, p).err # ""
             THEN /\ Ends(p, 1, flock(lockHolders, p).err)
                  /\ lockf' = IF lockf = "absent" THEN "empty" ELSE lockf
             ELSE /\ lockHolders' = lockHolders \cup {p}
                  /\ lockf' = "getpid"
                  /\ pc' = [pc EXCEPT ![p] = main_after_lock(l)]
                  /\ UNCHANGED <<status, err>>
    /\ UNCHANGED <<idx, attempt, data, tables, k, fd, log>>
    /\ UNCHANGED <<fsVars, normVars, stubVars>>

\* One iteration of fetch(url): a GET request and what follows it.
Get(p) ==
    /\ pc[p] = "fetch"
    /\ \E resp \in Remote(SOURCES[idx[p]].url) :
          LET r == fetch_step(attempt[p], resp)
          IN  IF r.err = ""
              THEN /\ data' = [data EXCEPT ![p] = r.val]
                   /\ attempt' = [attempt EXCEPT ![p] = 0]
                   /\ pc' = [pc EXCEPT ![p] = "save"]
                   /\ log' = Logged(p, <<"GET", idx[p]>>)
                   /\ UNCHANGED <<idx, status, err, lockHolders>>
              ELSE IF r.err = "next"
              THEN /\ attempt' = [attempt EXCEPT ![p] = @ + 1]
                   /\ log' = Logged(p, <<"GET", idx[p]>>)
                   /\ UNCHANGED <<pc, idx, data, status, err, lockHolders>>
              ELSE SourceFailure(p, r.err, <<"GET", idx[p]>>)
    /\ UNCHANGED <<local, tables, k, fd, lockf>>
    /\ UNCHANGED <<fsVars, normVars, stubVars>>

\* backup(name) as a step: the clock is read when the file exists
BackupStep(name) ==
    IF isfile(dirent, name)
    THEN /\ clock' = clock + 1
         /\ dirent' = backup(dirent, name, clock + 1)
         /\ made' = made @@ (BackupName(name, clock + 1) :> inode[dirent[name]])
    ELSE UNCHANGED <<clock, dirent, made>>

\* save_df up to the open: the size test and the backup
SaveCheck(p) ==
    LET name == Path("sources", SOURCES[idx[p]].file)
        r    == save_df_check(dirent, inode, name, data[p])
    IN  /\ pc[p] = "save"
        /\ IF r.err # ""
           THEN /\ SourceFailure(p, r.err, <<"save", idx[p]>>)
                /\ UNCHANGED <<clock, dirent, made>>
           ELSE /\ BackupStep(name)
                /\ log' = Logged(p, <<"save", idx[p]>>)
                /\ pc' = [pc EXCEPT ![p] = "open"]
                /\ UNCHANGED <<idx, attempt, data, status, err, lockHolders>>
        /\ UNCHANGED <<local, tables, k, fd, lockf, inode>>
        /\ UNCHANGED <<normVars, stubVars>>

\* open(name, 'w') as a step of process p
OpenStep(p, name) ==
    LET o == open_w(dirent, inode, name)
    IN  /\ dirent' = o.dirent
        /\ inode' = o.inode
        /\ fd' = [fd EXCEPT ![p] = o.fd]

\* save_df: open(filename, 'wb')
SaveOpen(p) ==
    /\ pc[p] = "open"
    /\ OpenStep(p, Path("sources", SOURCES[idx[p]].file))
    /\ pc' = [pc EXCEPT ![p] = "write"]
    /\ UNCHANGED <<local, idx, attempt, data, tables, k, status, err, log>>
    /\ UNCHANGED <<lockHolders, lockf, clock, made, normVars, stubVars>>

\* save_df: f.write(data) and the close, then main's loop goes on
SaveWrite(p) ==
    /\ pc[p] = "write"
    /\ inode' = [inode EXCEPT ![fd[p]] = data[p]]
    /\ fd' = [fd EXCEPT ![p] = 0]
    /\ NextSource(p)
    /\ log' = Logged(p, <<"saved", idx[p]>>)
    /\ UNCHANGED <<local, tables, k, status, err>>
    /\ UNCHANGED <<lockHolders, lockf, dirent, clock, made, normVars, stubVars>>

\* the pairs of zip(file_names, data_tables)
ZipLen(p) == IF Len(tables[p]) < Len(file_names) THEN Len(tables[p])
             ELSE Len(file_names)

\* parse_data_mtl up to its loop of writes
Parse(p) ==
    LET source == Path("sources", <<"data_mtl", ".html">>)
        r == IF isfile(dirent, source) THEN parse_tables(inode[dirent[source]])
             ELSE Raise("FileNotFoundError")
    IN  /\ pc[p] = "parse"
        /\ log' = Logged(p, <<"extract">>)
        /\ IF r.err # ""
           THEN /\ Ends(p, 1, r.err)
                /\ UNCHANGED <<tables, k>>
           ELSE /\ tables' = [tables EXCEPT ![p] = r.val]
                /\ k' = [k EXCEPT ![p] = 1]
                /\ IF Len(r.val) = 0
                   THEN Ends(p, 0, "")
                   ELSE /\ pc' = [pc EXCEPT ![p] = "table_backup"]
                        /\ UNCHANGED <<status, err, lockHolders>>
        /\ UNCHANGED <<local, idx, attempt, data, fd, lockf>>
        /\ UNCHANGED <<fsVars, normVars, stubVars>>

\* the loop of parse_data_mtl: backup(fq_path)
TableBackup(p) ==
    /\ pc[p] = "table_backup"
    /\ BackupStep(Path("processed", file_names[k[p]]))
    /\ pc' = [pc EXCEPT ![p] = "table_open"]
    /\ UNCHANGED <<local, idx, attempt, data, tables, k, fd, status, err, log>>
    /\ UNCHANGED <<lockHolders, lockf, inode, normVars, stubVars>>

\* the loop of parse_data_mtl: open(fq_path, 'w')
TableOpen(p) ==
    /\ pc[p] = "table_open"
    /\ OpenStep(p, Path("processed", file_names[k[p]]))
    /\ pc' = [pc EXCEPT ![p] = "table_write"]
    /\ UNCHANGED <<local, idx, attempt, data, tables, k, status, err, log>>
    /\ UNCHANGED <<lockHolders, lockf, clock, made, normVars, stubVars>>

\* the loop of parse_data_mtl: writer.writerows(rows) and the close; after
\* the last pair parse_data_mtl returns and main returns 0
TableWrite(p) ==
    /\ pc[p] = "table_write"
    /\ inode' = [inode EXCEPT ![fd[p]] = csv_rows(table_rows(tables[p][k[p]]))]
    /\ fd' = [fd EXCEPT ![p] = 0]
    /\ log' = Logged(p, <<"table", k[p]>>)
    /\ IF k[p] < ZipLen(p)
       THEN /\ k' = [k EXCEPT ![p] = @ + 1]
            /\ pc' = [pc EXCEPT ![p] = "table_backup"]
            /\ UNCHANGED <<status, err, lockHolders>>
       ELSE /\ Ends(p, 0, "")
            /\ UNCHANGED k
    /\ UNCHANGED <<local, idx, attempt, data, tables>>
    /\ UNCHANGED <<lockf, dirent, clock, made, normVars, stubVars>>

\* what the process was about to write to its open file
Pending(p) ==
    IF pc[p] = "write" THEN data[p]
    ELSE csv_rows(table_rows(tables[p][k[p]]))

\* The process is killed.  A file it had open keeps what was written of it:
\* the first bytes, up to MaxPartial of them and short of all.
Kill(p) ==
    /\ pc[p] \notin {"start", "exited"}
    /\ Ends(p, 137, "SIGKILL")
    /\ IF pc[p] \in {"write", "table_write"}
       THEN \E n \in 0..MaxPartial :
               /\ n = 0 \/ n < Len(Pending(p))
               /\ inode' = [inode EXCEPT ![fd[p]] = SubSeq(Pending(p), 1, n)]
       ELSE UNCHANGED inode
    /\ fd' = [fd EXCEPT ![p] = 0]
    /\ UNCHANGED <<local, idx, attempt, data, tables, k, log>>
    /\ UNCHANGED <<lockf, dirent, clock, made, normVars, stubVars>>

Next ==
    \E p \in Procs :
        \/ Lock(p)
        \/ Get(p)
        \/ SaveCheck(p)
        \/ SaveOpen(p)
        \/ SaveWrite(p)
        \/ Parse(p)
        \/ TableBackup(p)
        \/ TableOpen(p)
        \/ TableWrite(p)
        \/ Kill(p)

Spec == Init /\ [][Next]_vars

(***************************************************************************)
(* norm_cell on its own: every text of up to MaxCell characters is         *)
(* normalised, and the result normalised again.                            *)
(***************************************************************************)
CellAlphabet == {"1", "2", " ", ",", "*", "a", "\n"}

Cells == SeqsUpTo(CellAlphabet, MaxCell)

InitNorm ==
    /\ InitPipeline
    /\ InitStubNone
    /\ cellIn \in Cells
    /\ cellOut = <<>>

NormCell ==
    /\ Len(cellOut) < 2
    /\ cellOut' = Append(cellOut, norm_cell(IF cellOut = <<>> THEN cellIn
                                            ELSE cellOut[Len(cellOut)]))
    /\ UNCHANGED <<cellIn, procVars, lockHolders, lockf, fsVars, stubVars>>

SpecNorm == InitNorm /\ [][NormCell]_vars

(***************************************************************************)
(* fetch on its own, requests.get being a stub that gives the prepared     *)
(* responses one after the other.                                          *)
(***************************************************************************)
StubBodies == SeqsUpTo({"a", "xE9"}, MaxBody)

StubResponses ==
    {ConnectionError}
    \cup {Response(st, ct, b) :
              st \in {200, 500},
              ct \in {"None", "text/html; charset=iso-8859-1",
                      "text/html; charset=x-bogus"},
              b \in StubBodies}

InitFetch ==
    /\ InitPipeline
    /\ InitNormNone
    /\ stub \in [1..NB_RETRIES -> StubResponses]
    /\ fetchI = 0
    /\ fetchOut = [state |-> "running", err |-> "", val |-> <<>>, gets |-> 0]

\* One iteration of fetch(url) against the stub.
FetchGet ==
    /\ fetchOut.state = "running"
    /\ LET r == fetch_step(fetchI, stub[fetchI + 1])
       IN  IF r.err = "next"
           THEN /\ fetchI' = fetchI + 1
                /\ fetchOut' = [fetchOut EXCEPT !.gets = @ + 1]
           ELSE /\ fetchI' = fetchI
                /\ fetchOut' = [state |-> IF r.err = "" THEN "returned" ELSE "raised",
                                err   |-> r.err,
                                val   |-> r.val,
                                gets  |-> fetchOut.gets + 1]
    /\ UNCHANGED <<stub, procVars, lockHolders, lockf, fsVars, normVars>>

SpecFetch == InitFetch /\ [][FetchGet]_vars

(***************************************************************************)
(* The properties.                                                         *)
(***************************************************************************)
Events(p) == {log[p][i] : i \in 1..Len(log[p])}

SourcePath(i) == Path("sources", SOURCES[i].file)

ProcessedPath(i) == Path("processed", file_names[i])

\* C1: a backup, once created, exists and holds the bytes it was created
\* with, whatever is saved or extracted afterwards.
BackupsKeepContent ==
    \A b \in DOMAIN made : isfile(dirent, b) /\ inode[dirent[b]] = made[b]

\* the step of process p out of the place at, other than by a signal
StepFrom(p, at) == pc[p] = at /\ pc'[p] # at /\ err'[p] # "SIGKILL"

\* C2: save_df of data shorter than the file it would replace raises the
\* ValueError, the file keeps its bytes and no backup is made.
SmallerSaveRejected ==
    [][\A p \in Procs :
          (/\ StepFrom(p, "save")
           /\ isfile(dirent, SourcePath(idx[p]))
           /\ getsize(dirent, inode, SourcePath(idx[p])) > Len(data[p]))
          => /\ pc'[p] = "exited"
             /\ err'[p] = "ValueError: smaller"
             /\ dirent' = dirent
             /\ inode' = inode]_vars

C2Witness ==
    \E p \in Procs :
        /\ err[p] = "ValueError: smaller"
        /\ isfile(dirent, SourcePath(idx[p]))
        /\ getsize(dirent, inode, SourcePath(idx[p])) = 2

NonSuccess(resp) == resp.raised = "" /\ resp.status # 200

Success(resp) == resp.raised = "" /\ resp.status = 200

\* C3: against a remote that answers two non-success statuses and then a
\* success, fetch issues exactly 3 GET requests and returns the normalised
\* body of the third response.
FetchRetriesUntilSuccess ==
    (/\ fetchOut.state # "running"
     /\ NonSuccess(stub[1]) /\ NonSuccess(stub[2]) /\ Success(stub[3])
     /\ normalize_encoding(stub[3].content, stub[3].ctype).err = "")
    => /\ fetchOut.gets = 3
       /\ fetchOut.state = "returned"
       /\ fetchOut.val = normalize_encoding(stub[3].content, stub[3].ctype).val

\* C4: against a remote that answers a non-success status every time, fetch
\* issues exactly NB_RETRIES GET requests and raises the RuntimeError.
FetchRaisesAfterRetries ==
    (/\ fetchOut.state # "running"
     /\ \A i \in 1..NB_RETRIES : NonSuccess(stub[i]))
    => /\ fetchOut.gets = NB_RETRIES
       /\ fetchOut.state = "raised"
       /\ fetchOut.err = "RuntimeError"

\* the entries of SOURCES whose fetch or save_df failed in the run of p
Failed(p) == {i \in 1..Len(SOURCES) : <<"failed", i>> \in Events(p)}

\* C5 as stated: a run in which the fetch or the save of an entry failed
\* still fetches every later entry and runs the extraction before it ends.
SourceFailureIsolated ==
    \A p \in Procs : \A i \in Failed(p) :
        (pc[p] = "exited" /\ err[p] # "SIGKILL")
        => /\ \A j \in (i + 1)..Len(SOURCES) : <<"GET", j>> \in Events(p)
           /\ <<"extract">> \in Events(p)

\* C5 as amended: the failure of the fetch or of the save of an entry ends
\* the run with status 1; nothing is fetched, saved or extracted after it.
SourceFailureAborts ==
    \A p \in Procs : \A i \in Failed(p) :
        /\ pc[p] = "exited"
        /\ status[p] = 1
        /\ log[p][Len(log[p])] = <<"failed", i>>
        /\ <<"extract">> \notin Events(p)
        /\ \A j \in (i + 1)..Len(SOURCES) :
              <<"GET", j>> \notin Events(p) /\ <<"save", j>> \notin Events(p)

C5Witness ==
    \E p \in Procs :
        /\ pc[p] = "exited"
        /\ err[p] = "ValueError: smaller"
        /\ Failed(p) = {2}

\* the data tables of the cached page
CachedTables ==
    data_tables(select_contenttable(soup_tables(inode[dirent[SourcePath(1)]])))

\* C6: over a page of exactly nb_tables data tables the extraction writes the
\* nb_tables processed files; over a page of any other number it raises the
\* ValueError and leaves every file and backup as it was.
TableCountDecides ==
    [][\A p \in Procs :
          /\ (StepFrom(p, "parse") /\ isfile(dirent, SourcePath(1)))
             => IF Len(CachedTables) = nb_tables
                THEN pc'[p] = "table_backup" /\ tables'[p] = CachedTables
                ELSE /\ pc'[p] = "exited"
                     /\ err'[p] = "ValueError: tables"
                     /\ dirent' = dirent
                     /\ inode' = inode
          /\ (StepFrom(p, "table_write") /\ pc'[p] = "exited")
             => /\ status'[p] = 0
                /\ Len(tables[p]) = nb_tables
                /\ \A i \in 1..nb_tables :
                      /\ isfile(dirent', ProcessedPath(i))
                      /\ inode'[dirent'[ProcessedPath(i)]]
                             = csv_rows(table_rows(tables[p][i]))]_vars

C6Witness ==
    \E p, q \in Procs :
        /\ pc[p] = "exited" /\ err[p] = "ValueError: tables"
        /\ pc[q] = "exited" /\ status[q] = 0 /\ <<"table", nb_tables>> \in Events(q)

\* C7: at most one process holds the lock; a process that takes it while
\* another holds it ends at once with the BlockingIOError, one that takes it
\* while none holds it gets it, and a process that has ended holds nothing.
LockExcludes ==
    /\ [](Cardinality(lockHolders) <= 1)
    /\ [](\A p \in lockHolders : pc[p] \notin {"start", "exited"})
    /\ [][\A p \in Procs :
             (pc[p] = "start" /\ pc'[p] # "start")
             => IF lockHolders = {}
                THEN lockHolders' = {p} /\ pc'[p] \in {"fetch", "parse"}
                ELSE /\ pc'[p] = "exited"
                     /\ err'[p] = "BlockingIOError"
                     /\ lockHolders' = lockHolders]_vars

C7Witness ==
    \E p, q \in Procs :
        /\ pc[p] = "exited" /\ err[p] = "BlockingIOError"
        /\ q \in lockHolders

WhollyNumeric(text) ==
    LET body == IF Len(text) > 0 /\ text[1] = "*" THEN Tail(text) ELSE text
    IN  body # <<>> /\ \A i \in 1..Len(body) : body[i] \in NumClass

\* C8: norm_cell of a normalised text is that text.
NormIdempotent == Len(cellOut) = 2 => cellOut[2] = cellOut[1]

\* the text with every run of whitespace made one space and the ends trimmed
RECURSIVE Collapsed(_)
Collapsed(text) ==
    IF text = <<>> THEN <<>>
    ELSE IF text[1] \in Whitespace
         THEN LET rest == Collapsed(Tail(text))
              IN  IF rest = <<>> \/ Len(text) = 1 THEN rest
                  ELSE IF text[2] \in Whitespace THEN rest
                  ELSE <<" ">> \o rest
    ELSE <<text[1]>> \o Collapsed(Tail(text))

Trimmed(text) == strip(Collapsed(text))

\* C9: a text that is not wholly an optional asterisk and then digits, spaces
\* and commas comes out of norm_cell with its whitespace collapsed and
\* nothing else changed.
LabelOnlyCollapsed ==
    (Len(cellOut) >= 1 /\ ~WhollyNumeric(cellIn)) => cellOut[1] = Trimmed(cellIn)

\* the digits of the text in order, every comma a decimal point, the leading
\* asterisk and the spaces dropped
NumericForm(text) ==
    LET body == IF text[1] = "*" THEN Tail(text) ELSE text
        kept == SelectSeq(body, LAMBDA c : c # " ")
    IN  [i \in 1..Len(kept) |-> IF kept[i] = "," THEN "." ELSE kept[i]]

\* C10: a text that is an optional asterisk and then digits, spaces and
\* commas, with a digit among them, comes out of norm_cell as its digits in
\* order, every comma a decimal point, the asterisk and the spaces dropped.
NumericCanonical ==
    (/\ Len(cellOut) >= 1
     /\ WhollyNumeric(cellIn)
     /\ \E i \in 1..Len(cellIn) : cellIn[i] \in Digits)
    => cellOut[1] = NumericForm(cellIn)

C10Witness ==
    /\ cellIn = <<"*", "1", " ", ",">>
    /\ cellOut = <<<<"1", ".">>>>

\* the CSV text the extraction of p writes for the pair it is at
NewCsv(p) == csv_rows(table_rows(tables[p][k[p]]))

\* C11 as stated: when the processed file of a table is longer than the CSV
\* newly extracted for it, the extraction neither backs it up nor writes it:
\* the file and the directory stay as they were.
ExtractorRejectsSmaller ==
    [][\A p \in Procs :
          (/\ StepFrom(p, "table_backup") \/ StepFrom(p, "table_open")
           /\ isfile(dirent, ProcessedPath(k[p]))
           /\ getsize(dirent, inode, ProcessedPath(k[p])) > Len(NewCsv(p)))
          => /\ dirent' = dirent
             /\ inode' = inode]_vars

\* C11 as amended: the extraction makes no test of size.  Every processed
\* file that exists is given a backup name and every processed file is then
\* written with the newly extracted CSV, a longer file included; no
\* extraction ends with the ValueError of save_df.
ExtractorOverwrites ==
    /\ [](\A p \in Procs :
             <<"extract">> \in Events(p) => err[p] # "ValueError: smaller")
    /\ [][\A p \in Procs :
             /\ StepFrom(p, "table_backup")
                => /\ pc'[p] = "table_open"
                   /\ isfile(dirent, ProcessedPath(k[p]))
                      => /\ ~isfile(dirent, BackupName(ProcessedPath(k[p]), clock'))
                         /\ isfile(dirent', BackupName(ProcessedPath(k[p]), clock'))
             /\ StepFrom(p, "table_open") => pc'[p] = "table_write"
             /\ StepFrom(p, "table_write")
                => /\ inode'[dirent'[ProcessedPath(k[p])]] = NewCsv(p)
                   /\ IF k[p] < nb_tables
                      THEN pc'[p] = "table_backup" /\ k'[p] = k[p] + 1
                      ELSE pc'[p] = "exited" /\ status'[p] = 0]_vars

C11Witness ==
    \E p \in Procs : \E t \in 1..clock :
        /\ pc[p] = "exited" /\ status[p] = 0
        /\ <<"table", 1>> \in Events(p)
        /\ BackupName(ProcessedPath(1), t) \in DOMAIN made
        /\ inode[dirent[ProcessedPath(1)]] = csv_rows(table_rows(tables[p][1]))
        /\ Len(made[BackupName(ProcessedPath(1), t)])
               > Len(inode[dirent[ProcessedPath(1)]])

\* the backup names of the file name that the directory holds
Siblings(d, name) ==
    {b \in DOMAIN d : b[3] # 0 /\ b = BackupName(name, b[3])}

\* a file gets its backup name before it is written: while a process is to
\* write a file that has no backup name, that file was missing when its
\* save_df began
WrittenFirstTime(p) == pc[p] = "write" /\ Siblings(dirent, SourcePath(idx[p])) = {}

\* C12: save_df on a name at which no file exists raises nothing and makes no
\* backup name, and the file it leaves holds exactly the data.
SaveCreates ==
    [][\A p \in Procs :
          /\ (StepFrom(p, "save") /\ ~isfile(dirent, SourcePath(idx[p])))
             => /\ pc'[p] = "open"
                /\ dirent' = dirent
                /\ inode' = inode
          /\ (StepFrom(p, "open") /\ ~isfile(dirent, SourcePath(idx[p])))
             => /\ pc'[p] = "write"
                /\ DOMAIN dirent' = DOMAIN dirent \cup {SourcePath(idx[p])}
                /\ \A n \in DOMAIN dirent : dirent'[n] = dirent[n]
                /\ \A n \in DOMAIN inode : inode'[n] = inode[n]
                /\ Siblings(dirent', SourcePath(idx[p])) = {}
          /\ (WrittenFirstTime(p) /\ pc'[p] # "write" /\ err'[p] # "SIGKILL")
             => /\ pc'[p] \in {"fetch", "parse"}
                /\ err'[p] = ""
                /\ dirent' = dirent
                /\ inode'[dirent'[SourcePath(idx[p])]] = data[p]]_vars

C12Witness ==
    \E p \in Procs :
        /\ <<"saved", 2>> \in Events(p)
        /\ Siblings(dirent, SourcePath(2)) = {}
        /\ isfile(dirent, SourcePath(2))
        /\ inode[dirent[SourcePath(2)]] = <<"a", "b">>

\* C13: a process whose lock() raised the BlockingIOError made no GET request
\* and no save, backup or extraction: its failing step left every file, name
\* and backup as it was, and it took no step before or after it.
LockFailureDoesNothing ==
    /\ [](\A p \in Procs :
             err[p] = "BlockingIOError" => pc[p] = "exited" /\ log[p] = <<>>)
    /\ [][\A p \in Procs :
             /\ (pc[p] = "start" /\ pc'[p] # "start" /\ lockHolders # {})
                => /\ err'[p] = "BlockingIOError"
                   /\ dirent' = dirent
                   /\ inode' = inode
                   /\ made' = made
             /\ err[p] = "BlockingIOError"
                => pc'[p] = pc[p] /\ log'[p] = log[p]]_vars

C13Witness ==
    \E p, q \in Procs :
        /\ err[p] = "BlockingIOError" /\ log[p] = <<>>
        /\ <<"table", 1>> \in Events(q)
        /\ pc[q] = "exited"

\* the run of p went through the whole of main: every entry of SOURCES saved
\* (unless --local) and the nb_tables processed files written
Completed(p) ==
    /\ local[p] \/ \A i \in 1..Len(SOURCES) : <<"saved", i>> \in Events(p)
    /\ \A i \in 1..nb_tables : <<"table", i>> \in Events(p)

\* C14: a process that has ended has status 0 exactly when its run went
\* through the whole of main; one ended by the BlockingIOError of lock() or
\* by the ValueError of the table count has a status other than 0.
ExitStatusTellsCompletion ==
    \A p \in Procs :
        pc[p] = "exited"
        => /\ status[p] = 0 <=> Completed(p)
           /\ err[p] \in {"BlockingIOError", "ValueError: tables"} => status[p] # 0

C14Witness ==
    \E p, q \in Procs :
        /\ pc[p] = "exited" /\ status[p] = 0 /\ ~local[p] /\ Completed(p)
        /\ pc[q] = "exited" /\ status[q] = 1 /\ err[q] = "BlockingIOError"

\* the process is between its lock() and its end
Working(p) == pc[p] \notin {"start", "exited"}

\* C15: every step that changes a file, a name or a backup is a step of a
\* process holding the lock; a process holds the lock from its lock() to its
\* end, so no two processes are at work on the files at once.
WritesUnderLock ==
    /\ [](\A p \in Procs : Working(p) <=> p \in lockHolders)
    /\ [](\A p, q \in Procs : (Working(p) /\ Working(q)) => p = q)
    /\ [][(dirent' # dirent \/ inode' # inode \/ made' # made)
          => \E p \in lockHolders :
                /\ pc'[p] # pc[p]
                /\ \A q \in Procs \ {p} : pc'[q] = pc[q] /\ ~Working(q)]_vars

C15Witness ==
    \E p, q \in Procs :
        /\ pc[p] = "exited" /\ <<"saved", 1>> \in Events(p)
        /\ pc[q] = "table_write" /\ q \in lockHolders
        /\ <<"saved", 1>> \in Events(q)

\* C16: save_df on a file that is not longer than the data raises nothing,
\* gives the file exactly one new backup name, made while the file still
\* holds its bytes, and leaves the file holding exactly the data.
SaveOverwrites ==
    [][\A p \in Procs :
          /\ (/\ StepFrom(p, "save")
              /\ isfile(dirent, SourcePath(idx[p]))
              /\ getsize(dirent, inode, SourcePath(idx[p])) <= Len(data[p]))
             => /\ pc'[p] = "open"
                /\ err'[p] = ""
                /\ inode' = inode
                /\ \A n \in DOMAIN dirent : dirent'[n] = dirent[n]
                /\ DOMAIN dirent'
                       = DOMAIN dirent \cup {BackupName(SourcePath(idx[p]), clock')}
                /\ BackupName(SourcePath(idx[p]), clock') \notin DOMAIN dirent
                /\ Cardinality(Siblings(dirent', SourcePath(idx[p])))
                       = Cardinality(Siblings(dirent, SourcePath(idx[p]))) + 1
          /\ (StepFrom(p, "open") /\ isfile(dirent, SourcePath(idx[p])))
             => pc'[p] = "write" /\ dirent' = dirent
          /\ (pc[p] = "write" /\ ~WrittenFirstTime(p)
                 /\ pc'[p] # "write" /\ err'[p] # "SIGKILL")
             => /\ pc'[p] \in {"fetch", "parse"}
                /\ err'[p] = ""
                /\ dirent' = dirent
                /\ inode'[dirent'[SourcePath(idx[p])]] = data[p]]_vars

C16Witness ==
    \E p \in Procs : \E b \in Siblings(dirent, SourcePath(1)) :
        /\ <<"saved", 1>> \in Events(p)
        /\ Siblings(dirent, SourcePath(1)) = {b}
        /\ Len(made[b]) = Len(inode[dirent[SourcePath(1)]])
        /\ made[b] # inode[dirent[SourcePath(1)]]
        /\ inode[dirent[SourcePath(1)]] = data[p] \/ pc[p] # "write"

\* the places of the event e in the log of p
At(p, e) == {i \in 1..Len(log[p]) : log[p][i] = e}

\* every e1 of the log of p comes before every e2 of it
Before(p, e1, e2) == \A i \in At(p, e1) : \A j \in At(p, e2) : i < j

\* C17: in a run without --local an entry of SOURCES is saved after it was
\* fetched, the next entry is fetched only after that save is done, and the
\* extraction starts only after a GET request was made for every entry.
RegistryOrder ==
    \A p \in Procs :
        ~local[p]
        => /\ \A i \in 1..Len(SOURCES) :
                 /\ At(p, <<"save", i>>) # {}
                    => At(p, <<"GET", i>>) # {} /\ Before(p, <<"GET", i>>, <<"save", i>>)
                 /\ At(p, <<"saved", i>>) # {}
                    => At(p, <<"save", i>>) # {} /\ Before(p, <<"save", i>>, <<"saved", i>>)
                 /\ (i > 1 /\ At(p, <<"GET", i>>) # {})
                    => /\ At(p, <<"saved", i - 1>>) # {}
                       /\ Before(p, <<"saved", i - 1>>, <<"GET", i>>)
                 /\ At(p, <<"extract">>) # {}
                    => At(p, <<"GET", i>>) # {} /\ Before(p, <<"GET", i>>, <<"extract">>)
           /\ Cardinality(At(p, <<"extract">>)) <= 1

C17Witness ==
    \E p \in Procs :
        /\ ~local[p]
        /\ At(p, <<"extract">>) # {}
        /\ \A i \in 1..Len(SOURCES) : At(p, <<"saved", i>>) # {}
        /\ pc[p] = "table_backup"

\* the files of sources/, backups included: name -> bytes
SourceFiles ==
    [n \in {m \in DOMAIN dirent : m[1] = "sources"} |-> inode[dirent[n]]]

\* C18: a run with --local makes no GET request and no save: every step of
\* it leaves the files of sources/ and their backups as they were; from its
\* lock() it goes to the extraction, which writes the processed files.
LocalOnlyReadsCache ==
    /\ [](\A p \in Procs :
             local[p] => \A i \in 1..Len(SOURCES) :
                            /\ <<"GET", i>> \notin Events(p)
                            /\ <<"save", i>> \notin Events(p)
                            /\ <<"saved", i>> \notin Events(p))
    /\ [](\A p \in Procs :
             (local[p] /\ pc[p] = "exited" /\ status[p] = 0)
             => \A i \in 1..nb_tables :
                   /\ <<"table", i>> \in Events(p)
                   /\ isfile(dirent, ProcessedPath(i)))
    /\ [][\A p \in Procs :
             (local'[p] /\ pc'[p] # pc[p])
             => /\ SourceFiles' = SourceFiles
                /\ pc[p] = "start"
                   => pc'[p] = "parse" \/ err'[p] = "BlockingIOError"]_vars

C18Witness ==
    \E p \in Procs :
        /\ local[p]
        /\ pc[p] = "exited" /\ status[p] = 0
        /\ Events(p) = {<<"extract">>} \cup {<<"table", i>> : i \in 1..nb_tables}
        /\ DOMAIN SourceFiles # {}

\* the latest backup name of the file name
Latest(name) == BackupName(name, SetMax({b[3] : b \in Siblings(dirent, name)}))

\* C19: a save_df that ends, by its ValueError or by its write, leaves the
\* file at least as long as it found it: a refused save leaves the bytes, an
\* accepted one has data at least as long as the file, keeps under the new
\* backup name the bytes it found, and leaves exactly its data.
SizeNeverDecreases ==
    [][\A p \in Procs :
          /\ (StepFrom(p, "save") /\ isfile(dirent, SourcePath(idx[p])))
             => IF pc'[p] = "exited"
                THEN /\ isfile(dirent', SourcePath(idx[p]))
                     /\ getsize(dirent', inode', SourcePath(idx[p]))
                            = getsize(dirent, inode, SourcePath(idx[p]))
                ELSE /\ pc'[p] = "open"
                     /\ data'[p] = data[p]
                     /\ Len(data[p]) >= getsize(dirent, inode, SourcePath(idx[p]))
                     /\ made'[BackupName(SourcePath(idx[p]), clock')]
                            = inode[dirent[SourcePath(idx[p])]]
          /\ StepFrom(p, "open")
             => /\ data'[p] = data[p]
                /\ made' = made
                /\ Siblings(dirent', SourcePath(idx[p]))
                       = Siblings(dirent, SourcePath(idx[p]))
          /\ (StepFrom(p, "write") /\ ~WrittenFirstTime(p))
             => getsize(dirent', inode', SourcePath(idx[p]))
                    >= Len(made[Latest(SourcePath(idx[p]))])]_vars

C19Witness ==
    \E p \in Procs : \E b \in Siblings(dirent, SourcePath(1)) :
        /\ <<"saved", 1>> \in Events(p)
        /\ pc[p] = "parse"
        /\ Siblings(dirent, SourcePath(1)) = {b}
        /\ Len(made[b]) > 0
        /\ Len(made[b]) < getsize(dirent, inode, SourcePath(1))

\* the processed files, backups included: name -> bytes
ProcessedFiles ==
    [n \in {m \in DOMAIN dirent : m[1] = "processed"} |-> inode[dirent[n]]]

\* C20: a run without --local whose page has not nb_tables data tables ends
\* by the ValueError of the table count, and that end undoes nothing: the
\* entries of SOURCES it saved, the page and the backup names among them,
\* stay as saved, and the processed files stay as they were before the run.
NoRollbackOnMismatch ==
    /\ [][\A p \in Procs :
             (/\ StepFrom(p, "parse")
              /\ ~local[p]
              /\ Len(CachedTables) # nb_tables)
             => /\ pc'[p] = "exited"
                /\ err'[p] = "ValueError: tables"
                /\ status'[p] = 1
                /\ \A i \in 1..Len(SOURCES) :
                      <<"saved", i>> \in Events(p) /\ isfile(dirent, SourcePath(i))
                /\ dirent' = dirent
                /\ SourceFiles' = SourceFiles
                /\ ProcessedFiles' = ProcessedFiles]_vars
    /\ [](\A p \in Procs :
             (/\ err[p] = "ValueError: tables" /\ ~local[p]
              /\ \A q \in Procs \ {p} : pc[q] = "start")
             => /\ \A i \in 1..Len(SOURCES) : isfile(dirent, SourcePath(i))
                /\ Len(CachedTables) # nb_tables
                /\ DOMAIN ProcessedFiles = {})

C20Witness ==
    \E p \in Procs :
        /\ pc[p] = "exited" /\ err[p] = "ValueError: tables" /\ ~local[p]
        /\ Siblings(dirent, SourcePath(1)) # {}
        /\ Len(CachedTables) = MaxTables
        /\ \A i \in 1..nb_tables :
              /\ isfile(dirent, ProcessedPath(i))
              /\ Len(inode[dirent[ProcessedPath(i)]]) > 0

=============================================================================
